---- MODULE Spec2Model ----
(***************************************************************************)
(* A model of the PDF document analyzer: utils/pdf_loader.py (PDFLoader),  *)
(* utils/qa_pipeline.py (QAPipeline) and the handlers of main.py.          *)
(*                                                                         *)
(* Text is a sequence of one-character strings, so that strip(), len() and *)
(* slicing are computed.  A message built by an f-string is the sequence   *)
(* of its fragments.  The vector backend (ChromaDB), the embedding model   *)
(* and the LLM are external: every call to them either returns or raises,  *)
(* chosen nondeterministically.                                            *)
(*                                                                         *)
(* Spec is a caller of QAPipeline's methods, AskSpec a caller that puts    *)
(* its questions through ask_question, SourceSpec a caller that ingests    *)
(* chunks longer than a source shows, ChunkSpec a caller of PDFLoader, and *)
(* AppSpec the buttons of main.py on one session.                          *)
(***************************************************************************)
EXTENDS Integers, Sequences, FiniteSets, TLC

VARIABLES
    pipes,          \* the QAPipeline objects a caller holds a reference to
    heap,           \* pipeline -> its fields [vector_store, qa_chain]
    collections,    \* the vector backend: name of each existing collection -> its texts
    created,        \* how many collections have been created so far
    session,        \* st.session_state
    last,           \* the call that ran last, and what it handed its caller
    ingested,       \* history: setup_qa_pipeline has succeeded on the pipeline
    cleared         \* history: clear_vector_store was called after the last successful setup

vars == <<pipes, heap, collections, created, session, last, ingested, cleared>>

----------------------------------------------------------------------------
(* Bounds of the model *)

MaxPipelines == 1
MaxCollections == 2

\* the longest chunk list a collection is made from
MaxChunks == 4

PipeIds == 1..MaxPipelines
CollIds == 1..MaxCollections

\* None, in a field that otherwise names a collection or a pipeline
None == 0

----------------------------------------------------------------------------
(* Text *)

Whitespace == {" ", "\n", "\t"}

RECURSIVE LStrip(_)
LStrip(s) == IF s # <<>> /\ Head(s) \in Whitespace THEN LStrip(Tail(s)) ELSE s

RECURSIVE RStrip(_)
RStrip(s) ==
    IF s # <<>> /\ s[Len(s)] \in Whitespace THEN RStrip(SubSeq(s, 1, Len(s) - 1)) ELSE s

\* str.strip()
Strip(s) == RStrip(LStrip(s))

\* s[:n]
Prefix(s, n) == SubSeq(s, 1, IF Len(s) < n THEN Len(s) ELSE n)

\* An f-string: the sequence of its fragments; it is empty iff all of them are.
IsEmptyText(t) == \A i \in 1..Len(t) : t[i] = ""

----------------------------------------------------------------------------
(* utils/pdf_loader.py: the text splitter PDFLoader.__init__ configures,   *)
(* langchain's RecursiveCharacterTextSplitter with length_function = len,  *)
(* keep_separator and strip_whitespace at their defaults (True).           *)

\* A for loop over positions lo..hi: Step(state, i) is its body.  The range
\* is halved so that a loop over some hundred items stays shallow, and the
\* state is compared to itself so that it is computed before the next body.
RECURSIVE FoldRange(_, _, _, _)
FoldRange(Step(_, _), state, lo, hi) ==
    IF lo > hi \/ state # state THEN state
    ELSE IF lo = hi THEN Step(state, lo)
    ELSE LET mid == (lo + hi) \div 2
         IN  FoldRange(Step, FoldRange(Step, state, lo, mid), mid + 1, hi)

\* re.split: a match of sep at i, if no earlier match covers i
MatchStep(text, sep, st, i) ==
    IF /\ i >= st.next
       /\ i + Len(sep) - 1 <= Len(text)
       /\ SubSeq(text, i, i + Len(sep) - 1) = sep
    THEN [next |-> i + Len(sep), found |-> Append(st.found, i)]
    ELSE st

\* where re.split finds sep in text: left to right, not overlapping
Matches(text, sep) ==
    FoldRange(LAMBDA st, i : MatchStep(text, sep, st, i),
              [next |-> 1, found |-> <<>>], 1, Len(text)).found

NonEmpty(s) == s # <<>>

\* _split_text_with_regex, the pieces of text that start at its first
\* character and at the matches m, the empty ones dropped
Pieces(text, m) ==
    SelectSeq([j \in 1..(Len(m) + 1) |->
                  SubSeq(text,
                         IF j = 1 THEN 1 ELSE m[j - 1],
                         IF j = Len(m) + 1 THEN Len(text) ELSE m[j] - 1)],
              NonEmpty)

\* _split_text_with_regex: the pieces of text around sep, each separator kept
\* at the start of the piece that follows it, empty pieces dropped; the
\* characters of text when sep is empty.
SplitKeeping(text, sep) ==
    IF sep = <<>>
    THEN [i \in 1..Len(text) |-> <<text[i]>>]
    ELSE Pieces(text, Matches(text, sep))

\* separator.join(docs)
Join(docs, sep) ==
    FoldRange(LAMBDA text, i : IF i = 1 THEN docs[i] ELSE text \o sep \o docs[i],
              <<>>, 1, Len(docs))

\* _join_docs, its return: None, which the caller skips, for an empty text
IfAny(text) == IF text = <<>> THEN <<>> ELSE <<text>>

\* _join_docs: the stripped join as a one-element list, or nothing when it is empty
JoinDocs(docs, sep) == IfAny(Strip(Join(docs, sep)))

\* _merge_splits, one turn of its inner while loop before a piece of length
\* len is added: drop the first piece of the current chunk while the chunk
\* is longer than the overlap or has no room for the next piece.
PopFront(st, len, sepLen, chunk_size, chunk_overlap) ==
    IF \/ st.total > chunk_overlap
       \/ /\ st.total + len + (IF Len(st.cur) > 0 THEN sepLen ELSE 0) > chunk_size
          /\ st.total > 0
    THEN [st EXCEPT !.total = @ - (Len(st.cur[1]) + (IF Len(st.cur) > 1 THEN sepLen ELSE 0)),
                    !.cur = Tail(@)]
    ELSE st

\* _merge_splits, the if in the body of its for loop: when the piece of
\* length len does not fit, the current chunk is emitted and shortened.  The
\* while loop drops one piece a turn, so it has ended after Len(cur) turns.
Emit(st, len, sep, chunk_size, chunk_overlap) ==
    IF /\ st.total + len + (IF Len(st.cur) > 0 THEN Len(sep) ELSE 0) > chunk_size
       /\ Len(st.cur) > 0
    THEN FoldRange(LAMBDA s, i : PopFront(s, len, Len(sep), chunk_size, chunk_overlap),
                   [st EXCEPT !.docs = @ \o JoinDocs(st.cur, sep)],
                   1, Len(st.cur))
    ELSE st

\* _merge_splits, the end of the body of its for loop: the piece d joins
\* the current chunk
AddPiece(st, d, sep) ==
    [docs |-> st.docs, cur |-> Append(st.cur, d),
     total |-> st.total + Len(d) + (IF Len(st.cur) > 0 THEN Len(sep) ELSE 0)]

\* _merge_splits, the body of its for loop for the piece d
MergeStep(st, d, sep, chunk_size, chunk_overlap) ==
    AddPiece(Emit(st, Len(d), sep, chunk_size, chunk_overlap), d, sep)

\* _merge_splits, after its for loop: what is left is the last chunk
LastChunk(st, sep) == st.docs \o JoinDocs(st.cur, sep)

\* TextSplitter._merge_splits(splits, separator)
MergeSplits(splits, sep, chunk_size, chunk_overlap) ==
    LastChunk(FoldRange(LAMBDA s, i : MergeStep(s, splits[i], sep, chunk_size, chunk_overlap),
                        [docs |-> <<>>, cur |-> <<>>, total |-> 0], 1, Len(splits)),
              sep)

\* _split_text, its first loop: the first separator that is empty or occurs
\* in text, and the separators after it
RECURSIVE PickSeparator(_, _, _)
PickSeparator(text, separators, i) ==
    IF i > Len(separators)
    THEN [separator |-> separators[Len(separators)], new_separators |-> <<>>]
    ELSE IF separators[i] = <<>>
    THEN [separator |-> <<>>, new_separators |-> <<>>]
    ELSE IF Matches(text, separators[i]) # <<>>
    THEN [separator |-> separators[i],
          new_separators |-> SubSeq(separators, i + 1, Len(separators))]
    ELSE PickSeparator(text, separators, i + 1)

RECURSIVE SplitText(_, _, _, _)

\* _split_text, "if _good_splits": the short pieces collected so far are
\* merged into chunks and added to the final ones
MergeGood(st, chunk_size, chunk_overlap) ==
    IF st.good # <<>>
    THEN st.final \o MergeSplits(st.good, <<>>, chunk_size, chunk_overlap)
    ELSE st.final

\* _split_text, the body of its second loop for the piece s; keep_separator
\* makes the merging separator empty
SplitStep(st, s, new_separators, chunk_size, chunk_overlap) ==
    IF Len(s) < chunk_size
    THEN [st EXCEPT !.good = Append(@, s)]
    ELSE [good |-> <<>>,
          final |-> MergeGood(st, chunk_size, chunk_overlap)
                    \o (IF new_separators = <<>>
                        THEN <<s>>
                        ELSE SplitText(s, new_separators, chunk_size, chunk_overlap))]

\* _split_text, its second loop over the pieces splits
SplitLoop(splits, new_separators, chunk_size, chunk_overlap) ==
    MergeGood(FoldRange(LAMBDA s, i : SplitStep(s, splits[i], new_separators,
                                                chunk_size, chunk_overlap),
                        [good |-> <<>>, final |-> <<>>], 1, Len(splits)),
              chunk_size, chunk_overlap)

\* _split_text, after its first loop has picked the separator
SplitWith(text, pick, chunk_size, chunk_overlap) ==
    SplitLoop(SplitKeeping(text, pick.separator), pick.new_separators,
              chunk_size, chunk_overlap)

\* RecursiveCharacterTextSplitter._split_text(text, separators)
SplitText(text, separators, chunk_size, chunk_overlap) ==
    SplitWith(text, PickSeparator(text, separators, 1), chunk_size, chunk_overlap)

\* The separators without the empty one, which splits between any two
\* characters
Separators_of_words == << <<"\n", "\n">>, <<"\n">>, <<" ">> >>

\* PDFLoader.__init__: the separators, coarsest first
Separators == << <<"\n", "\n">>, <<"\n">>, <<" ">>, <<>> >>

\* self.text_splitter.split_text(text)
split_text(text, chunk_size, chunk_overlap) ==
    SplitText(text, Separators, chunk_size, chunk_overlap)

\* PDFLoader.__init__, the defaults of its parameters
ChunkSize == 500
ChunkOverlap == 50

\* An exception: its class and str(e), the fragments of its message
Raise(type, msg) == [type |-> type, msg |-> msg]

ValueError(msg) == Raise("ValueError", msg)

NoError == Raise("none", <<>>)

Raised(error) == [outcome |-> "raised", error |-> error]

Returned(value) == [outcome |-> "returned", error |-> NoError, ret |-> value]

\* load_pdf, the text of the pages: a page with no text adds nothing
PagesText(pages) ==
    FoldRange(LAMBDA text, i : IF pages[i] # <<>> THEN text \o pages[i] \o <<"\n">> ELSE text,
              <<>>, 1, Len(pages))

\* load_pdf, "if not chunks"
CheckChunks(chunks) ==
    IF chunks = <<>>
    THEN Raised(ValueError(<<"Failed to create text chunks">>))
    ELSE Returned(chunks)

\* A load_pdf that tests text_content where the code tests its strip()
SplitContent_unstripped(text_content, chunk_size, chunk_overlap) ==
    IF text_content = <<>>
    THEN Raised(ValueError(<<"No text content found in PDF">>))
    ELSE CheckChunks(split_text(text_content, chunk_size, chunk_overlap))

\* load_pdf, "if not text_content.strip()" and the split
SplitContent(text_content, chunk_size, chunk_overlap) ==
    IF Strip(text_content) = <<>>
    THEN Raised(ValueError(<<"No text content found in PDF">>))
    ELSE CheckChunks(split_text(text_content, chunk_size, chunk_overlap))

\* load_pdf, the body of its try.  pdf is what PyPDF2 finds in the file:
\* whether it can be read, and the text of each page.
ReadAndSplit(pdf, chunk_size, chunk_overlap) ==
    IF ~pdf.readable
    THEN Raised(Raise("PdfReadError", <<"EOF marker not found">>))
    ELSE IF Len(pdf.pages) = 0
    THEN Raised(ValueError(<<"PDF file is empty">>))
    ELSE SplitContent(PagesText(pdf.pages), chunk_size, chunk_overlap)

\* load_pdf, its except clause: whatever the try raises is raised again as
\* an Exception that quotes it
Wrapped(r) ==
    IF r.outcome = "raised"
    THEN Raised(Raise("Exception", <<"Error processing PDF: ">> \o r.error.msg))
    ELSE r

\* PDFLoader(chunk_size, chunk_overlap).load_pdf(file_path)
load_pdf(file_path, chunk_size, chunk_overlap) ==
    IF ~file_path.exists
    THEN Raised(Raise("FileNotFoundError", <<"PDF file not found: ", file_path.name>>))
    ELSE IF ~file_path.pdf_suffix
    THEN Raised(ValueError(<<"File must be a PDF: ", file_path.name>>))
    ELSE Wrapped(ReadAndSplit(file_path.pdf, chunk_size, chunk_overlap))

\* sum(len(chunk) for chunk in chunks)
TotalChars(chunks) ==
    FoldRange(LAMBDA n, i : n + Len(chunks[i]), 0, 1, Len(chunks))

\* round(total / count, 2) in hundredths: to the nearest, a tie to the even
\* one.  (A tie needs a count that 8 divides; the float's own error is not
\* modelled.)
RoundedAverage(total, count) ==
    LET q == (100 * total) \div count
        r == (100 * total) % count
    IN  IF 2 * r > count \/ (2 * r = count /\ q % 2 = 1) THEN q + 1 ELSE q

\* PDFLoader.get_chunk_info(chunks)
get_chunk_info(chunks) ==
    IF chunks = <<>>
    THEN [total_chunks |-> 0, avg_chunk_size |-> 0, total_characters |-> 0]
    ELSE [total_chunks |-> Len(chunks),
          avg_chunk_size |-> RoundedAverage(TotalChars(chunks), Len(chunks)),
          total_characters |-> TotalChars(chunks)]

----------------------------------------------------------------------------
(* Inputs *)

\* process_pdf, its size limit: 50 * 1024 * 1024
MaxUploadBytes == 50 * 1024 * 1024

ShortChunk == <<"a", "b">>
OtherChunk == <<"c">>

\* The chunk lists handed to setup_qa_pipeline directly
ChunkLists ==
    { <<>>, <<ShortChunk, ShortChunk>>, <<ShortChunk, OtherChunk, ShortChunk, ShortChunk>> }

Questions == { <<>>, <<" ", "\n">>, <<"W", "h", "y", "?">> }

\* A page of one word, long enough that two pages do not fit one chunk
LongPage == [i \in 1..(ChunkSize \div 2 + 1) |-> "a"]

Pdf(name, size, readable, pages) ==
    [name |-> name, size |-> size, pdf |-> [readable |-> readable, pages |-> pages]]

\* The files uploaded: too big, not a PDF inside, without pages, with a page
\* without text and a page of white space, with little text, with four long pages
Files ==
    { Pdf("big.pdf", MaxUploadBytes + 1, TRUE, << <<"h", "i">> >>),
      Pdf("broken.pdf", MaxUploadBytes, FALSE, <<>>),
      Pdf("nopages.pdf", Len(LongPage), TRUE, <<>>),
      Pdf("blank.pdf", Len(LongPage), TRUE, << <<>>, <<" ", "\n", " ">> >>),
      Pdf("note.pdf", Len(LongPage), TRUE, << <<"h", "i", " ", "y", "o", "u">>, <<>> >>),
      Pdf("long.pdf", MaxUploadBytes, TRUE, <<LongPage, LongPage, LongPage, LongPage>>) }

\* process_pdf: the temporary file it saves the upload to
TmpPath(uploaded_file) ==
    [exists |-> TRUE, pdf_suffix |-> TRUE, name |-> "tmp.pdf", pdf |-> uploaded_file.pdf]

\* process_pdf: PDFLoader().load_pdf(tmp_path), computed once for each file
Loaded == [f \in Files |-> load_pdf(TmpPath(f), ChunkSize, ChunkOverlap)]

----------------------------------------------------------------------------
(* The external backends.  A call returns or raises; str(e) of what it     *)
(* raises is one of BackendMessages.                                       *)

BackendMessages == {<<"">>, <<"quota exceeded">>}

\* Chroma.from_texts: returns a store over a new collection holding the texts,
\* or raises and leaves no collection.
FromTextsOutcomes == {"ok", "raised"}

\* RetrievalQA.from_chain_type
ChainCreationOutcomes == {"ok", "raised"}

\* qa_chain({"query": q}): embed the question, search the collection, call the LLM.
ChainCallOutcomes == {"ok", "embed_raised", "search_raised", "llm_raised"}

\* client.delete_collection: returns having deleted, or raises, with the
\* collection still there or gone.
DeleteOutcomes == {"deleted", "raised_kept", "raised_gone"}

\* collection.count()
CountOutcomes == {"ok", "raised"}

\* What the LLM generates.
Generated == {<<"The document is about X.">>, <<"">>}

\* The outcomes of a backend call: drawn only when the call is made
Drawn(called, outcomes) == IF called THEN outcomes ELSE {CHOOSE o \in outcomes : TRUE}


----------------------------------------------------------------------------
(* utils/qa_pipeline.py *)

TopK == 3
SourceLimit == 200
Ellipsis == <<".", ".", ".">>

NotInitializedMsg == <<"QA pipeline not initialized. Call setup_qa_pipeline first.">>
EmptyQuestionMsg == <<"Question cannot be empty">>
NoChunksMsg == <<"No text chunks provided">>

\* QAPipeline.__init__, its last two assignments
NewQAPipeline == [vector_store |-> None, qa_chain |-> None]

\* uuid4().hex[:8]: a name no collection has had, after n collections (a
\* collision of two uuids is not modelled)
FreshName(n) == n + 1

\* A list without its repetitions, the first of each kept
RECURSIVE Distinct(_)
Distinct(texts) ==
    IF texts = <<>> THEN <<>>
    ELSE LET front == Distinct(SubSeq(texts, 1, Len(texts) - 1))
             t == texts[Len(texts)]
         IN  IF \E i \in DOMAIN front : front[i] = t THEN front ELSE Append(front, t)

\* A store that keeps one entry for equal texts
from_texts_distinct(colls, name, chunks) == (name :> Distinct(chunks)) @@ colls

\* Chroma.from_texts(texts = chunks, collection_name = name) when it returns:
\* the backend with a new collection of one entry for each text, in order
from_texts(colls, name, chunks) == (name :> chunks) @@ colls

\* setup_qa_pipeline(self, chunks) with the backend as colls and n collections created so far:
\* the fields of self, the backend and the count afterwards, and what the
\* caller gets.
setup_qa_pipeline(self, chunks, colls, n, fromTexts, chainCreation, msg) ==
    IF chunks = <<>>
    THEN [self |-> self, colls |-> colls, n |-> n,
          outcome |-> "raised", error |-> ValueError(NoChunksMsg)]
    ELSE IF fromTexts # "ok"
    THEN [self |-> self, colls |-> colls, n |-> n,
          outcome |-> "raised",
          error |-> ValueError(<<"Failed to create vector store: ">> \o msg)]
    ELSE LET name == FreshName(n)
             stored == from_texts(colls, name, chunks)
             withStore == [self EXCEPT !.vector_store = name]
         IN  IF chainCreation # "ok"
             THEN [self |-> withStore, colls |-> stored, n |-> name,
                   outcome |-> "raised",
                   error |-> ValueError(<<"Failed to create QA chain: ">> \o msg)]
             ELSE [self |-> [withStore EXCEPT !.qa_chain = withStore.vector_store],
                   colls |-> stored, n |-> name,
                   outcome |-> "returned", error |-> NoError]

\* A cut that also takes the texts of just SourceLimit characters
FormatSource_at_limit(text) ==
    IF Len(text) >= SourceLimit THEN Prefix(text, SourceLimit) \o Ellipsis ELSE text

\* One source of the result: the document's text, cut for display.
FormatSource(text) ==
    IF Len(text) > SourceLimit THEN Prefix(text, SourceLimit) \o Ellipsis ELSE text

HasText(doc) == "page_content" \in DOMAIN doc \/ "content" \in DOMAIN doc

DocText(doc) == IF "page_content" \in DOMAIN doc THEN doc.page_content ELSE doc.content

RECURSIVE FormatSources(_)
FormatSources(docs) ==
    IF docs = <<>> THEN <<>>
    ELSE IF HasText(Head(docs))
         THEN <<FormatSource(DocText(Head(docs)))>> \o FormatSources(Tail(docs))
         ELSE FormatSources(Tail(docs))

Min(a, b) == IF a < b THEN a ELSE b

\* The rankings a similarity search with k = TopK can give over n stored
\* texts: Min(TopK, n) distinct positions, nearest first.
RankingTable ==
    [n \in 0..MaxChunks |->
        {r \in [1..Min(TopK, n) -> 1..n] : \A i, j \in DOMAIN r : i # j => r[i] # r[j]}]

\* The rankings of a retriever left at its default, k = 4
Rankings_default_k(n) ==
    {r \in [1..Min(4, n) -> 1..n] : \A i, j \in DOMAIN r : i # j => r[i] # r[j]}

Rankings(n) == RankingTable[n]

Documents(texts, rank) == [i \in DOMAIN rank |-> [page_content |-> texts[rank[i]]]]

\* A chunk one character longer than what a source shows, and one just as long
LongChunk == [i \in 1..(SourceLimit + 1) |-> "a"]
ExactChunk == [i \in 1..SourceLimit |-> "b"]

\* Chunk lists with chunks to cut
LongChunkLists == { <<LongChunk, ExactChunk, ShortChunk>>, <<ExactChunk, LongChunk>> }

\* The chunk lists the model ingests
KnownTexts ==
    ChunkLists \cup LongChunkLists \cup {Loaded[f].ret : f \in {g \in Files : Loaded[g].outcome = "returned"}}

\* What the retriever can hand the chain from a collection holding texts,
\* computed once for each chunk list
RetrievedTable ==
    [texts \in KnownTexts \cup {<<>>} |->
        {Documents(texts, rank) : rank \in Rankings(Len(texts))}]

Retrieved(texts) == RetrievedTable[texts]

\* An error result whose answer is str(e) alone
ErrorResult_bare(msg) == [answer |-> msg, sources |-> <<>>, source_count |-> 0]

\* query_chain, the result its except clause builds
ErrorResult(msg) ==
    [answer |-> <<"Error processing question: ">> \o msg, sources |-> <<>>, source_count |-> 0]

\* query_chain, its try and except: the chain is called, and whatever it
\* raises becomes a result.  backend says how the call to the chain ended.
CallChain(self, question, colls, call, docs, text, msg) ==
    IF call = "embed_raised"
    THEN [outcome |-> "returned", error |-> NoError, ret |-> ErrorResult(msg),
          contacted |-> {"embedding"}, backend |-> "raised"]
    ELSE IF call = "search_raised" \/ self.qa_chain \notin DOMAIN colls
    THEN [outcome |-> "returned", error |-> NoError, ret |-> ErrorResult(msg),
          contacted |-> {"embedding", "vector"}, backend |-> "raised"]
    ELSE IF call = "llm_raised"
    THEN [outcome |-> "returned", error |-> NoError, ret |-> ErrorResult(msg),
          contacted |-> {"embedding", "vector", "llm"}, backend |-> "raised"]
    ELSE LET result == [result |-> text, source_documents |-> docs]
             answer == IF "result" \in DOMAIN result
                       THEN result.result ELSE <<"No answer generated">>
             source_documents == IF "source_documents" \in DOMAIN result
                                 THEN result.source_documents ELSE <<>>
             sources == FormatSources(source_documents)
         IN  [outcome |-> "returned", error |-> NoError,
              ret |-> [answer |-> answer, sources |-> sources,
                       source_count |-> Len(sources)],
              contacted |-> {"embedding", "vector", "llm"}, backend |-> "ok",
              retrieved |-> docs]

\* A query_chain that tests the store where the code tests the chain
query_chain_tests_store(self, question, colls, call, docs, text, msg) ==
    IF self.vector_store = None
    THEN [outcome |-> "raised", error |-> ValueError(NotInitializedMsg),
          contacted |-> {}]
    ELSE IF Strip(question) = <<>>
    THEN [outcome |-> "raised", error |-> ValueError(EmptyQuestionMsg),
          contacted |-> {}]
    ELSE CallChain(self, question, colls, call, docs, text, msg)

\* A query_chain without the test of the question
query_chain_any_question(self, question, colls, call, docs, text, msg) ==
    IF self.qa_chain = None
    THEN [outcome |-> "raised", error |-> ValueError(NotInitializedMsg),
          contacted |-> {}]
    ELSE CallChain(self, question, colls, call, docs, text, msg)

\* query_chain(self, question) against the backend colls: what the caller
\* gets, and the backends the call contacted.  call, docs, text, msg are the
\* backends' choices.
query_chain(self, question, colls, call, docs, text, msg) ==
    IF self.qa_chain = None
    THEN [outcome |-> "raised", error |-> ValueError(NotInitializedMsg),
          contacted |-> {}]
    ELSE IF Strip(question) = <<>>
    THEN [outcome |-> "raised", error |-> ValueError(EmptyQuestionMsg),
          contacted |-> {}]
    ELSE CallChain(self, question, colls, call, docs, text, msg)

\* get_vector_store_info(self)
get_vector_store_info(self, colls, count) ==
    IF self.vector_store = None
    THEN [total_documents |-> 0]
    ELSE IF count = "raised" \/ self.vector_store \notin DOMAIN colls
    THEN [total_documents |-> 0]
    ELSE [total_documents |-> Len(colls[self.vector_store]),
          collection_name |-> self.vector_store]

\* The backend once collection name is deleted
Without(colls, name) == [c \in DOMAIN colls \ {name} |-> colls[c]]

\* What delete_collection does for the store of self: it is not called,
\* finds no such collection, or ends as the backend chooses
Deletion(self, colls, delete) ==
    IF self.vector_store = None THEN "none"
    ELSE IF self.vector_store \notin DOMAIN colls THEN "absent"
    ELSE delete

\* Whether delete_collection removes the collection
Removes(deletion) == deletion \in {"deleted", "raised_gone"}

\* A clear_vector_store without its except clause
clear_vector_store_lets_raise(self, colls, delete) ==
    LET deletion == Deletion(self, colls, delete)
    IN  [self |-> IF deletion = "deleted"
                  THEN [self EXCEPT !.vector_store = None, !.qa_chain = None]
                  ELSE self,
         colls |-> IF Removes(deletion) THEN Without(colls, self.vector_store) ELSE colls,
         outcome |-> IF deletion \in {"none", "deleted"} THEN "returned" ELSE "raised",
         error |-> IF deletion \in {"none", "deleted"} THEN NoError
                   ELSE Raise("Exception", <<"delete_collection: ", deletion>>),
         backend |-> deletion]

\* clear_vector_store(self): the fields of self and the backend afterwards,
\* and what the caller gets.  The fields are reset after the deletion, in
\* the same try; what the try raises is passed over.
clear_vector_store(self, colls, delete) ==
    LET deletion == Deletion(self, colls, delete)
    IN  [self |-> IF deletion = "deleted"
                  THEN [self EXCEPT !.vector_store = None, !.qa_chain = None]
                  ELSE self,
         colls |-> IF Removes(deletion) THEN Without(colls, self.vector_store) ELSE colls,
         outcome |-> "returned", error |-> NoError,
         backend |-> deletion]

\* QAPipeline.__init__
ConstructOutcomes == {"ok", "no_api_key", "embeddings_raised", "llm_raised"}

QAPipeline(construct, msg) ==
    IF construct = "no_api_key"
    THEN [outcome |-> "raised",
          error |-> ValueError(<<"OpenRouter API key is required. Set OPENROUTER_API_KEY environment variable.">>)]
    ELSE IF construct = "embeddings_raised"
    THEN [outcome |-> "raised",
          error |-> ValueError(<<"Failed to initialize embeddings: ">> \o msg \o
                               <<". Please ensure sentence-transformers is installed.">>)]
    ELSE IF construct = "llm_raised"
    THEN [outcome |-> "raised",
          error |-> ValueError(<<"Failed to initialize LLM: ">> \o msg \o
                               <<". Please check your OpenRouter API key and model configuration.">>)]
    ELSE [outcome |-> "returned", error |-> NoError, self |-> NewQAPipeline]

----------------------------------------------------------------------------
(* main.py *)

\* "quota exceeded" in error_msg.lower(), "invalid api key" in error_msg.lower()
Mentions(msg, words) == \E i \in 1..Len(msg) : msg[i] = words

\* process_pdf, its handlers: what st.error shows for the exception caught
Shown(error) ==
    IF error.type = "ValueError"
    THEN IF Mentions(error.msg, "quota exceeded") THEN <<"OpenRouter Quota Exceeded!">>
         ELSE IF Mentions(error.msg, "invalid api key") THEN <<"Invalid OpenRouter API Key!">>
         ELSE <<"Error: ">> \o error.msg
    ELSE <<"Error processing PDF: ">> \o error.msg

\* process_pdf(uploaded_file) with the backend as colls and n collections created so far.
\* stored says whether the session state is updated, and then self is the
\* new pipeline and chunks its chunks; ret is the pair returned.
process_pdf(uploaded_file, colls, n, construct, fromTexts, chainCreation, count, msg) ==
    LET Failed(error, shown, colls2, n2) ==
            [stored |-> FALSE, error |-> error, shown |-> shown, colls |-> colls2,
             n |-> n2, ret |-> <<None, None>>]
    IN
    IF uploaded_file.size > MaxUploadBytes
    THEN Failed(NoError, <<"File size exceeds 50MB limit.">>, colls, n)
    ELSE LET loaded == Loaded[uploaded_file]
         IN
         IF loaded.outcome = "raised"
         THEN Failed(loaded.error, Shown(loaded.error), colls, n)
         ELSE LET chunks == loaded.ret
                  chunk_info == get_chunk_info(chunks)
                  qa_pipeline == QAPipeline(construct, msg)
              IN
              IF qa_pipeline.outcome = "raised"
              THEN Failed(qa_pipeline.error, Shown(qa_pipeline.error), colls, n)
              ELSE LET r == setup_qa_pipeline(qa_pipeline.self, chunks, colls, n,
                                              fromTexts, chainCreation, msg)
                   IN
                   IF r.outcome = "raised"
                   THEN Failed(r.error, Shown(r.error), r.colls, r.n)
                   ELSE [stored |-> TRUE, error |-> NoError, shown |-> <<>>,
                         colls |-> r.colls, n |-> r.n,
                         self |-> r.self, chunks |-> chunks,
                         ret |-> <<chunk_info, get_vector_store_info(r.self, r.colls, count)>>]

\* An ask_question without its except clause
ask_question_lets_raise(r) == r

\* ask_question(question, qa_pipeline), given what qa_pipeline.query_chain
\* does: an exception becomes a result
ask_question(r) ==
    IF r.outcome = "raised"
    THEN [outcome |-> "returned", error |-> NoError,
          ret |-> [answer |-> <<"Error processing question: ">> \o r.error.msg,
                   sources |-> <<>>, source_count |-> 0],
          contacted |-> r.contacted]
    ELSE r

\* main, its quick question buttons
quick_questions ==
    << <<"W", "h", "a", "t", " ", "i", "s", " ", "t", "h", "e", " ", "m", "a", "i", "n", " ", "t", "o", "p", "i", "c", "?">>,
       <<"S", "u", "m", "m", "a", "r", "i", "z", "e", " ", "k", "e", "y", " ", "p", "o", "i", "n", "t", "s">>,
       <<"W", "h", "a", "t", " ", "a", "r", "e", " ", "c", "o", "n", "c", "l", "u", "s", "i", "o", "n", "s", "?">> >>

\* initialize_session_state: the values of a session without keys
NewSession ==
    [qa_pipeline |-> None, pdf_loaded |-> FALSE, chunks |-> <<>>, current_pdf_name |-> ""]

----------------------------------------------------------------------------
(* State *)

NoValue == <<>>

\* The arguments of a call that takes no text to split
NoArgs == [text |-> <<>>, chunk_size |-> 0, chunk_overlap |-> 0]

Call(op, pipe, question, r) ==
    [op |-> op, pipe |-> pipe, question |-> question,
     outcome |-> r.outcome, error |-> r.error,
     ret |-> IF "ret" \in DOMAIN r THEN r.ret ELSE NoValue,
     contacted |-> IF "contacted" \in DOMAIN r THEN r.contacted ELSE {},
     backend |-> IF "backend" \in DOMAIN r THEN r.backend ELSE "none",
     retrieved |-> IF "retrieved" \in DOMAIN r THEN r.retrieved ELSE <<>>,
     file |-> "", args |-> NoArgs]

Init ==
    /\ pipes = {}
    /\ heap = [p \in PipeIds |-> NewQAPipeline]
    /\ collections = <<>>
    /\ created = 0
    /\ session = NewSession
    /\ last = Call("none", None, <<>>, [outcome |-> "none", error |-> NoError])
    /\ ingested = [p \in PipeIds |-> FALSE]
    /\ cleared = [p \in PipeIds |-> FALSE]

\* A caller constructs a QAPipeline
Construct ==
    \E construct \in ConstructOutcomes :
      \E msg \in Drawn(construct \in {"embeddings_raised", "llm_raised"}, BackendMessages) :
        LET r == QAPipeline(construct, msg)
            p == Cardinality(pipes) + 1
        IN  /\ p \in PipeIds
            /\ IF r.outcome = "returned"
               THEN /\ pipes' = pipes \cup {p}
                    /\ heap' = [heap EXCEPT ![p] = r.self]
               ELSE UNCHANGED <<pipes, heap>>
            /\ last' = Call("QAPipeline", IF r.outcome = "returned" THEN p ELSE None,
                            <<>>, r)
            /\ UNCHANGED <<collections, created, session, ingested, cleared>>

\* A caller calls p.setup_qa_pipeline(chunks)
Setup(p, chunks) ==
    \E fromTexts \in Drawn(chunks # <<>>, FromTextsOutcomes) :
      \E chainCreation \in Drawn(chunks # <<>> /\ fromTexts = "ok", ChainCreationOutcomes) :
      \E msg \in Drawn(chunks # <<>> /\ (fromTexts # "ok" \/ chainCreation # "ok"),
                        BackendMessages) :
        LET r == setup_qa_pipeline(heap[p], chunks, collections, created,
                                   fromTexts, chainCreation, msg)
        IN  /\ r.n \in 0..MaxCollections
            /\ heap' = [heap EXCEPT ![p] = r.self]
            /\ collections' = r.colls
            /\ created' = r.n
            /\ last' = Call("setup_qa_pipeline", p, <<>>, r)
            /\ ingested' = [ingested EXCEPT ![p] = @ \/ r.outcome = "returned"]
            /\ cleared' = [cleared EXCEPT ![p] = @ /\ r.outcome # "returned"]
            /\ UNCHANGED <<pipes, session>>

\* A caller calls p.query_chain(question)
Query(p, question) ==
    LET called == heap[p].qa_chain # None /\ Strip(question) # <<>>
        stored == heap[p].qa_chain \in DOMAIN collections
    IN
    \E call \in Drawn(called, ChainCallOutcomes) :
      \E docs \in Drawn(called /\ call = "ok" /\ stored,
                         Retrieved(IF stored THEN collections[heap[p].qa_chain] ELSE <<>>)) :
      \E text \in Drawn(called /\ call = "ok" /\ stored, Generated) :
      \E msg \in Drawn(called /\ (call # "ok" \/ ~stored), BackendMessages) :
        /\ last' = Call("query_chain", p, question,
                        query_chain(heap[p], question, collections, call, docs, text, msg))
        /\ UNCHANGED <<pipes, heap, collections, created, session, ingested, cleared>>

\* A caller calls p.clear_vector_store()
Clear(p) ==
    \E delete \in Drawn(heap[p].vector_store \in DOMAIN collections, DeleteOutcomes) :
        LET r == clear_vector_store(heap[p], collections, delete)
        IN  /\ heap' = [heap EXCEPT ![p] = r.self]
            /\ collections' = r.colls
            /\ last' = Call("clear_vector_store", p, <<>>,
                            [outcome |-> r.outcome, error |-> r.error,
                             backend |-> r.backend])
            /\ cleared' = [cleared EXCEPT ![p] = ingested[p]]
            /\ UNCHANGED <<pipes, created, session, ingested>>

\* A caller calls p.get_vector_store_info()
Info(p) ==
    \E count \in Drawn(heap[p].vector_store \in DOMAIN collections, CountOutcomes) :
        /\ last' = Call("get_vector_store_info", p, <<>>,
                        [outcome |-> "returned", error |-> NoError,
                         ret |-> get_vector_store_info(heap[p], collections, count)])
        /\ UNCHANGED <<pipes, heap, collections, created, session, ingested, cleared>>

\* A caller calls ask_question(question, p)
Ask(p, question) ==
    LET called == heap[p].qa_chain # None /\ Strip(question) # <<>>
        stored == heap[p].qa_chain \in DOMAIN collections
    IN
    \E call \in Drawn(called, ChainCallOutcomes) :
      \E docs \in Drawn(called /\ call = "ok" /\ stored,
                         Retrieved(IF stored THEN collections[heap[p].qa_chain] ELSE <<>>)) :
      \E text \in Drawn(called /\ call = "ok" /\ stored, Generated) :
      \E msg \in Drawn(called /\ (call # "ok" \/ ~stored), BackendMessages) :
        /\ last' = Call("ask_question", p, question,
                        ask_question(query_chain(heap[p], question, collections,
                                                 call, docs, text, msg)))
        /\ UNCHANGED <<pipes, heap, collections, created, session, ingested, cleared>>

Next ==
    \/ Construct
    \/ \E p \in pipes, chunks \in ChunkLists : Setup(p, chunks)
    \/ \E p \in pipes, question \in Questions : Query(p, question)
    \/ \E p \in pipes : Clear(p)
    \/ \E p \in pipes : Info(p)

\* The QAPipeline objects of a caller, under any sequence of calls of their
\* methods
Spec == Init /\ [][Next]_vars

SourceNext ==
    \/ Construct
    \/ \E p \in pipes, chunks \in LongChunkLists : Setup(p, chunks)
    \/ \E p \in pipes, question \in Questions : Query(p, question)

\* A caller that ingests chunks longer than a source shows, and queries
SourceSpec == Init /\ [][SourceNext]_vars

AskNext ==
    \/ Construct
    \/ \E p \in pipes, chunks \in ChunkLists : Setup(p, chunks)
    \/ \E p \in pipes : Clear(p)
    \/ \E p \in pipes, question \in Questions : Ask(p, question)

\* The QAPipeline objects of a caller that puts its questions through
\* ask_question
AskSpec == Init /\ [][AskNext]_vars

----------------------------------------------------------------------------
(* The handlers of main.py on one session.  The session holds the only     *)
(* reference to its pipeline: a pipeline it drops is gone (the collections *)
(* it made are not), and the names in pipes label the live objects.        *)

\* The Process button: process_pdf(uploaded_file)
ProcessPdf(uploaded_file) ==
    \E construct \in ConstructOutcomes :
      \E fromTexts \in Drawn(construct = "ok", FromTextsOutcomes) :
      \E chainCreation \in Drawn(construct = "ok" /\ fromTexts = "ok", ChainCreationOutcomes) :
      \E count \in Drawn(construct = "ok" /\ fromTexts = "ok" /\ chainCreation = "ok",
                          CountOutcomes) :
      \E msg \in Drawn(construct \in {"embeddings_raised", "llm_raised"}
                          \/ fromTexts # "ok" \/ chainCreation # "ok", BackendMessages) :
        LET r == process_pdf(uploaded_file, collections, created,
                             construct, fromTexts, chainCreation, count, msg)
            p == CHOOSE id \in PipeIds : id \notin pipes \ {session.qa_pipeline}
        IN  /\ r.n \in 0..MaxCollections
            /\ collections' = r.colls
            /\ created' = r.n
            /\ IF r.stored
               THEN /\ pipes' = {p}
                    /\ heap' = [id \in PipeIds |-> IF id = p THEN r.self ELSE NewQAPipeline]
                    /\ session' = [qa_pipeline |-> p, chunks |-> r.chunks,
                                   pdf_loaded |-> TRUE,
                                   current_pdf_name |-> uploaded_file.name]
                    /\ ingested' = [id \in PipeIds |-> id = p]
                    /\ cleared' = [id \in PipeIds |-> FALSE]
               ELSE UNCHANGED <<pipes, heap, session, ingested, cleared>>
            /\ last' = [Call("process_pdf", IF r.stored THEN p ELSE None, <<>>,
                              [outcome |-> "returned", error |-> r.error, ret |-> r.ret])
                        EXCEPT !.question = r.shown, !.file = uploaded_file.name]

\* The Ask button with a question typed: ask_question(question, qa_pipeline)
AskButton(question) ==
    LET p == session.qa_pipeline
        called == heap[p].qa_chain # None /\ Strip(question) # <<>>
        stored == heap[p].qa_chain \in DOMAIN collections
    IN
    /\ session.pdf_loaded
    /\ question # <<>>
    /\ \E call \in Drawn(called, ChainCallOutcomes) :
        \E docs \in Drawn(called /\ call = "ok" /\ stored,
                           Retrieved(IF stored THEN collections[heap[p].qa_chain] ELSE <<>>)) :
        \E text \in Drawn(called /\ call = "ok" /\ stored, Generated) :
        \E msg \in Drawn(called /\ (call # "ok" \/ ~stored), BackendMessages) :
          /\ last' = Call("ask_question", p, question,
                          ask_question(query_chain(heap[p], question, collections,
                                                   call, docs, text, msg)))
          /\ UNCHANGED <<pipes, heap, collections, created, session, ingested, cleared>>

\* A quick question button
QuickButton(i) == AskButton(quick_questions[i])

\* The sidebar's Clear button: clear_vector_store() on the session's
\* pipeline, then the keys of the session are deleted and the rerun sets them
\* anew
ClearButton ==
    LET p == session.qa_pipeline
    IN
    /\ session.pdf_loaded
    /\ \E delete \in Drawn(heap[p].vector_store \in DOMAIN collections, DeleteOutcomes) :
        LET r == clear_vector_store(heap[p], collections, delete)
        IN  /\ collections' = r.colls
            /\ pipes' = pipes \ {p}
            /\ heap' = [heap EXCEPT ![p] = NewQAPipeline]
            /\ session' = NewSession
            /\ ingested' = [ingested EXCEPT ![p] = FALSE]
            /\ cleared' = [cleared EXCEPT ![p] = FALSE]
            /\ last' = Call("clear_button", p, <<>>,
                            [outcome |-> "returned", error |-> NoError])
            /\ UNCHANGED created

AppNext ==
    \/ \E uploaded_file \in Files : ProcessPdf(uploaded_file)
    \/ \E question \in Questions : AskButton(question)
    \/ \E i \in DOMAIN quick_questions : QuickButton(i)
    \/ ClearButton

AppSpec == Init /\ [][AppNext]_vars

----------------------------------------------------------------------------
(* PDFLoader on its own: a caller splits texts and loads files.            *)

MaxTextLen == 4
MaxExcess == 2
SmallChunkSize == 3
SmallChunkOverlap == 1

\* One word of n characters
Word(n) == [i \in 1..n |-> "a"]

\* The texts of up to n characters of words, spaces and newlines
RECURSIVE TextsUpTo(_)
TextsUpTo(n) ==
    IF n = 0 THEN {<<>>}
    ELSE LET shorter == TextsUpTo(n - 1)
         IN  shorter \cup {Append(t, c) : t \in {u \in shorter : Len(u) = n - 1},
                                          c \in {"a", " ", "\n"}}

\* What is split: short texts by a small splitter, and words about as long
\* as a chunk by the splitter PDFLoader() makes
SplitInputs ==
    {[text |-> t, chunk_size |-> SmallChunkSize, chunk_overlap |-> SmallChunkOverlap] :
        t \in TextsUpTo(MaxTextLen)}
    \cup {[text |-> Word(n), chunk_size |-> ChunkSize, chunk_overlap |-> ChunkOverlap] :
            n \in (ChunkSize - MaxExcess)..(ChunkSize + MaxExcess)}

\* split_text of each input, computed once
SplitTable ==
    [args \in SplitInputs |-> split_text(args.text, args.chunk_size, args.chunk_overlap)]

\* PDFLoader(chunk_size, chunk_overlap).text_splitter.split_text(text)
SplitTextCall(args) ==
    /\ last' = [Call("split_text", None, <<>>, Returned(SplitTable[args]))
                EXCEPT !.args = args]
    /\ UNCHANGED <<pipes, heap, collections, created, session, ingested, cleared>>

\* PDFLoader().load_pdf(path) on an uploaded file saved to path
LoadPdfCall(uploaded_file) ==
    /\ last' = [Call("load_pdf", None, <<>>, Loaded[uploaded_file])
                EXCEPT !.file = uploaded_file.name]
    /\ UNCHANGED <<pipes, heap, collections, created, session, ingested, cleared>>

ChunkNext ==
    \/ \E args \in SplitInputs : SplitTextCall(args)
    \/ \E uploaded_file \in Files : LoadPdfCall(uploaded_file)

ChunkSpec == Init /\ [][ChunkNext]_vars

----------------------------------------------------------------------------
(* The claims.  last is the call that led to the state: the pipeline it    *)
(* was made on, what it returned or raised, the backends it contacted.     *)

\* C1: a query_chain on a pipeline that was ingested and then cleared (and
\* not ingested again since) raises the not-initialized error and returns no
\* answer or sources, whatever delete_collection did during the clear.
C1_QueryAfterClearFails ==
    (last.op = "query_chain" /\ cleared[last.pipe])
        => /\ last.outcome = "raised"
           /\ last.error = ValueError(NotInitializedMsg)

\* C2: a query_chain on a pipeline on which no setup_qa_pipeline has
\* returned raises the not-initialized error, for every question, and
\* contacts no backend.
C2_QueryBeforeIngestFails ==
    (last.op = "query_chain" /\ ~ingested[last.pipe])
        => /\ last.outcome = "raised"
           /\ last.error = ValueError(NotInitializedMsg)
           /\ last.contacted = {}

\* A real question put to a pipeline whose only ingest failed at the chain,
\* after the store was made
C2_Witness ==
    /\ last.op = "query_chain"
    /\ ~ingested[last.pipe]
    /\ Strip(last.question) # <<>>
    /\ heap[last.pipe].vector_store # None

IsText(t) == DOMAIN t = 1..Len(t) /\ \A i \in DOMAIN t : t[i] \in STRING

\* C3: ask_question hands its caller a result with exactly the fields
\* answer, sources and source_count (a text, a list of texts, a natural
\* number) and never an exception, for every question and every state of
\* the pipeline.
C3_AskAlwaysAnswers ==
    last.op = "ask_question"
        => /\ last.outcome = "returned"
           /\ DOMAIN last.ret = {"answer", "sources", "source_count"}
           /\ IsText(last.ret.answer)
           /\ DOMAIN last.ret.sources = 1..Len(last.ret.sources)
           /\ \A i \in DOMAIN last.ret.sources : IsText(last.ret.sources[i])
           /\ last.ret.source_count \in Nat

\* A question asked of a pipeline that was ingested and then cleared for good
C3_Witness ==
    /\ last.op = "ask_question"
    /\ cleared[last.pipe]
    /\ heap[last.pipe].qa_chain = None
    /\ Strip(last.question) # <<>>

\* C4: when the chain's call to a backend fails during query_chain, on a
\* pipeline whose chain is set and with a question that is not blank,
\* query_chain returns a result: its answer is not the empty text, its
\* sources are empty and its source_count is 0.
C4_BackendFailureIsResult ==
    (last.op = "query_chain" /\ last.backend = "raised")
        => /\ heap[last.pipe].qa_chain # None
           /\ Strip(last.question) # <<>>
           /\ last.outcome = "returned"
           /\ ~IsEmptyText(last.ret.answer)
           /\ last.ret.sources = <<>>
           /\ last.ret.source_count = 0

\* The LLM failed, and the exception it raised has no message
C4_Witness ==
    /\ last.op = "query_chain"
    /\ last.backend = "raised"
    /\ "llm" \in last.contacted
    /\ last.ret.answer = <<"Error processing question: ", "">>

\* C5, as claimed: a query_chain with an empty or blank question raises the
\* empty-question error and contacts no backend.
C5_BlankQuestionRejected ==
    (last.op = "query_chain" /\ Strip(last.question) = <<>>)
        => /\ last.outcome = "raised"
           /\ last.error = ValueError(EmptyQuestionMsg)
           /\ last.contacted = {}

\* C5, amended: a query_chain with an empty or blank question raises and
\* contacts no backend; what it raises is the empty-question error when the
\* pipeline's chain is set and the not-initialized error when it is not.
C5_BlankQuestionRaises ==
    (last.op = "query_chain" /\ Strip(last.question) = <<>>)
        => /\ last.outcome = "raised"
           /\ last.error = ValueError(IF heap[last.pipe].qa_chain = None
                                      THEN NotInitializedMsg ELSE EmptyQuestionMsg)
           /\ last.contacted = {}

\* A question of white space put to a pipeline whose chain is set
C5_Witness ==
    /\ last.op = "query_chain"
    /\ last.question # <<>>
    /\ Strip(last.question) = <<>>
    /\ heap[last.pipe].qa_chain # None

\* C6: after a setup_qa_pipeline that raised, the pipeline has no chain (it
\* rejects every query), whatever state it was in before.
C6_FailedIngestLeavesUninitialized ==
    (last.op = "setup_qa_pipeline" /\ last.outcome = "raised")
        => heap[last.pipe].qa_chain = None

\* C7: in a session, at most one collection exists in the vector backend
\* after any sequence of Process and Clear.
C7_AtMostOneCollection == Cardinality(DOMAIN collections) <= 1

\* C8, as claimed: after a process_pdf that succeeded, the collection holds
\* the chunks one for one and get_vector_store_info's total_documents equals
\* get_chunk_info's total_chunks.
C8_CountsAgree ==
    (last.op = "process_pdf" /\ last.pipe # None)
        => /\ collections[heap[last.pipe].vector_store] = session.chunks
           /\ last.ret[2].total_documents = last.ret[1].total_chunks

\* C8, amended: after a process_pdf that succeeded, the collection holds
\* the chunks one for one, equal ones included, total_chunks is their
\* number, and total_documents equals it when the backend's count returned
\* (the info then names the collection) and is 0 when the count raised.
C8_CountsAgreeWhenCounted ==
    (last.op = "process_pdf" /\ last.pipe # None)
        => /\ collections[heap[last.pipe].vector_store] = session.chunks
           /\ last.ret[1].total_chunks = Len(session.chunks)
           /\ last.ret[2].total_documents =
                  IF "collection_name" \in DOMAIN last.ret[2]
                  THEN last.ret[1].total_chunks ELSE 0

\* A document whose chunks are all equal was ingested and counted
C8_Witness ==
    /\ last.op = "process_pdf"
    /\ last.pipe # None
    /\ Len(session.chunks) > 1
    /\ \A i \in DOMAIN session.chunks : session.chunks[i] = session.chunks[1]
    /\ "collection_name" \in DOMAIN last.ret[2]

\* C9: in every result query_chain returns, source_count is at most 3 and
\* at most the number of chunks in the collection the pipeline's chain
\* reads, the one its last successful ingest made.
C9_SourceCountBounded ==
    (last.op = "query_chain" /\ last.outcome = "returned")
        => /\ last.ret.source_count <= 3
           /\ last.ret.source_count <=
                  (IF heap[last.pipe].qa_chain \in DOMAIN collections
                   THEN Len(collections[heap[last.pipe].qa_chain]) ELSE 0)

\* Three sources from a collection of more than three chunks
C9_Witness ==
    /\ last.op = "query_chain"
    /\ last.outcome = "returned"
    /\ last.ret.source_count = 3
    /\ heap[last.pipe].qa_chain \in DOMAIN collections
    /\ Len(collections[heap[last.pipe].qa_chain]) > 3

\* The uploads that can be read and whose pages hold no text but white space
BlankDocuments ==
    {f \in Files : /\ f.size <= MaxUploadBytes
                   /\ f.pdf.readable
                   /\ \A i \in DOMAIN f.pdf.pages :
                        \A j \in DOMAIN f.pdf.pages[i] : f.pdf.pages[i][j] \in Whitespace}

\* C10: process_pdf of a document whose extracted text is empty or white
\* space fails with load_pdf's empty-document error ("No text content found
\* in PDF", or "PDF file is empty" for a file without pages), creates no
\* collection and leaves the session and its pipeline as they were.
C10_EmptyDocumentRejected ==
    [][\A f \in BlankDocuments :
          (last'.op = "process_pdf" /\ last'.file = f.name) =>
              /\ last'.error =
                     Raise("Exception",
                           <<"Error processing PDF: ",
                             IF f.pdf.pages = <<>> THEN "PDF file is empty"
                             ELSE "No text content found in PDF">>)
              /\ last'.ret = <<None, None>>
              /\ UNCHANGED <<collections, created, pipes, heap, session>>]_vars

\* A document of white space was processed in a session without a document
C10_Witness ==
    /\ last.op = "process_pdf"
    /\ last.error.msg = <<"Error processing PDF: ", "No text content found in PDF">>
    /\ ~session.pdf_loaded
    /\ collections = <<>>

\* C11: clear_vector_store returns without raising in every state of the
\* pipeline and for everything delete_collection can do: on a pipeline that
\* was never ingested, on one already cleared, and when the backend finds
\* no such collection.
C11_ClearAlwaysReturns ==
    last.op = "clear_vector_store"
        => /\ last.outcome = "returned"
           /\ last.error = NoError

\* A clear whose delete_collection found the collection already gone
C11_Witness ==
    /\ last.op = "clear_vector_store"
    /\ last.backend = "absent"
    /\ cleared[last.pipe]

\* C12, as claimed: splitting one word of 501 characters with chunk_size
\* 500 and chunk_overlap 50 gives exactly one chunk, longer than chunk_size.
C12_OneOversizeChunk ==
    (last.op = "split_text" /\ last.args = [text |-> Word(501), chunk_size |-> 500,
                                            chunk_overlap |-> 50])
        => /\ Len(last.ret) = 1
           /\ Len(last.ret[1]) > 500

\* C12, amended: splitting one word of 501 characters with chunk_size 500
\* and chunk_overlap 50 gives exactly two chunks, the first 500 characters
\* of the word and its last 51 (the overlap of 50 and the character left),
\* neither longer than chunk_size.
C12_TwoChunksWithinSize ==
    (last.op = "split_text" /\ last.args = [text |-> Word(501), chunk_size |-> 500,
                                            chunk_overlap |-> 50])
        => /\ last.outcome = "returned"
           /\ last.ret = <<Word(500), Word(51)>>
           /\ \A i \in DOMAIN last.ret : Len(last.ret[i]) <= 500

\* The word of 501 characters was split by the splitter PDFLoader() makes
C12_Witness ==
    /\ last.op = "split_text"
    /\ Len(last.args.text) = 501
    /\ last.args.chunk_size = 500
    /\ last.args.chunk_overlap = 50
    /\ Len(last.ret) = 2

\* C13: in a result query_chain builds from the documents retrieved, sources
\* has one entry for each document, in the order retrieved; the entry is
\* the first 200 characters of the document's text followed by "..." when
\* the text is longer than 200 characters, and the text itself otherwise.
C13_SourcesCutInRankOrder ==
    (last.op = "query_chain" /\ last.backend = "ok")
        => /\ Len(last.ret.sources) = Len(last.retrieved)
           /\ \A i \in DOMAIN last.retrieved :
                LET text == last.retrieved[i].page_content
                IN  last.ret.sources[i] =
                        IF Len(text) > 200
                        THEN SubSeq(text, 1, 200) \o <<".", ".", ".">>
                        ELSE text

\* A chunk of 200 characters was retrieved first, one of 201 after it
C13_Witness ==
    /\ last.op = "query_chain"
    /\ last.backend = "ok"
    /\ Len(last.retrieved) >= 2
    /\ Len(last.retrieved[1].page_content) = 200
    /\ Len(last.retrieved[2].page_content) = 201
    /\ Len(last.ret.sources[2]) = 203

\* C14: on every pipeline, after any calls of setup_qa_pipeline, query_chain
\* and clear_vector_store, qa_chain is set only if vector_store is set, and
\* the collection the chain's retriever reads is the one vector_store holds.
C14_ChainReadsCurrentStore ==
    \A p \in pipes :
        heap[p].qa_chain # None
            => /\ heap[p].vector_store # None
               /\ heap[p].qa_chain = heap[p].vector_store

====
